---- MODULE Spec2Model ----
\* Model of the electrolux_exporter collector (package collector, Collector.Collect)
\* and of the part of main that handles the shutdown signal.
\*
\* float64 sample values are modelled in fixed point, as a number of hundredths
\* (1.0 is 100): every value the collector emits is either an integer, an integer
\* divided by 100, or a value rounded to 2 decimals by round(f, 2).
\* A Go pointer field (*int, *bool) is modelled as a sequence: <<>> is nil,
\* <<v>> points to v.
EXTENDS Integers, Sequences, FiniteSets, TLC

\* ---------------------------------------------------------------- bounds

\* Number of goroutines (concurrent scrapes) that may call Collect.
NumCallers == 2
\* Longest appliance list an Appliances response holds.
MaxAppliances == 2
\* Longest info list an AppliancesInfo response holds.
MaxInfos == 2
\* Last-updated timestamps range over 1..MaxTime.
MaxTime == 2
\* Raw fan speeds range over 0..MaxFanspeed.
MaxFanspeed == 9

Callers == 1 .. NumCallers
NoOwner == 0

\* ---------------------------------------------------------------- values

Nil == <<>>
Ptr(v) == <<v>>
Deref(p) == p[1]

PNCs == {"p1", "p2"}
\* An ApplianceID: ApplianceID.PNC() is its product number, String() the whole id.
\* Two units of product p1 and one of p2.
ApplianceIDSet ==
    {[pnc |-> "p1", serial |-> 1], [pnc |-> "p1", serial |-> 2], [pnc |-> "p2", serial |-> 1]}
PNC(id) == id.pnc

AIR_PURIFIER == "AIR_PURIFIER"
DeviceTypes == {AIR_PURIFIER, "OVEN"}
\* ocpapi.ApplianceInfo as returned by AppliancesInfo.
InfoSet == [PNC : PNCs, DeviceType : DeviceTypes]
\* The zero value a Go map read yields for a missing key.
ZeroInfo == [PNC |-> "", DeviceType |-> ""]

Times == 1 .. MaxTime

\* float64(i) for an integer i, in hundredths.
Float(i) == i * 100

\* ---------------------------------------------------------------- pure functions

boolToFloat64(b) == IF b THEN Float(1) ELSE Float(0)

workmode(s) ==
    CASE s = "PowerOff" -> Float(0)
      [] s = "Manual" -> Float(1)
      [] s = "Auto" -> Float(2)
      [] s = "Quiet" -> Float(3)
      [] OTHER -> Float(-1)

\* fanspeed(model, speed): <<perc, max, ok>>, perc the unrounded ratio speed/max as
\* a fraction [n, d].
\* Mutant of fanspeedMax: the Well A7 is given 7 speeds, as its name suggests.
fanspeedMaxA7(model) ==
    CASE model \in {"PUREA9", "AX9"} -> 9
      [] model \in {"WELLA5", "AX5"} -> 5
      [] model \in {"WELLA7", "AX7"} -> 7
      [] model \in {"FLOWA3", "AX3"} -> 3
      [] model \in {"Muju", "PURE500"} -> 3
      [] OTHER -> 0

fanspeedMax(model) ==
    CASE model \in {"PUREA9", "AX9"} -> 9
      [] model \in {"WELLA5", "AX5", "WELLA7", "AX7"} -> 5
      [] model \in {"FLOWA3", "AX3"} -> 3
      [] model \in {"Muju", "PURE500"} -> 3
      [] OTHER -> 0

fanspeed(model, speed) ==
    IF fanspeedMax(model) = 0
    THEN [perc |-> [n |-> 0, d |-> 1], max |-> Float(0), ok |-> FALSE]
    ELSE [perc |-> [n |-> speed, d |-> fanspeedMax(model)],
          max |-> Float(fanspeedMax(model)), ok |-> TRUE]

\* Mutant of round: the value is cut off after 2 decimals (math.Floor for math.Round).
roundDown(f) == (100 * f.n) \div f.d

\* round(f, 2) of the fraction f = n/d (d > 0), in hundredths: math.Round rounds
\* half away from zero.
round(f) ==
    IF f.n >= 0
    THEN (200 * f.n + f.d) \div (2 * f.d)
    ELSE -((200 * (-f.n) + f.d) \div (2 * f.d))

\* tvocPPBToVocDensity(ppb, temperature, 30.026) as a fraction:
\* 101.325 * 30.026 / 8.31446261815324 = 365.915 (to 6 digits), so the density is
\* 365.915 * ppb / (273.15 + temperature) = 365915 * ppb / (273150 + 1000 * temperature).
tvocPPBToVocDensity(ppb, temperature) ==
    [n |-> 365915 * ppb, d |-> 273150 + 1000 * temperature]

\* t1.After(t2) on time.Time values.
After(t1, t2) == t1 > t2

\* ---------------------------------------------------------------- reported state

OptBool == {Nil, Ptr(TRUE), Ptr(FALSE)}

\* An appliance's reported state is held as the API delivers it: every optional
\* property is Nil when the appliance does not report it, and the timestamps are
\* Metadata.<property>.LastUpdated. Reported(wire) is the Go struct Collect reads:
\* UILight and SafetyLock are plain bool fields there (Collect takes their address),
\* so a property the appliance does not report decodes to false.
Reported(wire) ==
    [wire EXCEPT !.UILight = IF @ = Nil THEN FALSE ELSE Deref(@),
                 !.SafetyLock = IF @ = Nil THEN FALSE ELSE Deref(@)]

\* ---------------------------------------------------------------- emission

collectMetric(desc, v, labels) == << [desc |-> desc, v |-> v, labels |-> labels] >>

\* Mutant of maybeCollectIntMetric: a nil pointer is sent as the zero value, as the
\* helper maybe would read it.
maybeCollectIntMetricZero(desc, p, labels) ==
    IF p # Nil THEN collectMetric(desc, Float(Deref(p)), labels) ELSE collectMetric(desc, Float(0), labels)

maybeCollectIntMetric(desc, p, labels) ==
    IF p # Nil THEN collectMetric(desc, Float(Deref(p)), labels) ELSE <<>>

maybeCollectBoolMetric(desc, p, labels) ==
    IF p # Nil THEN collectMetric(desc, boolToFloat64(Deref(p)), labels) ELSE <<>>

\* Mutant of filterLife: with both readings present the comparison is turned round.
filterLifeEarlier(reported) ==
    CASE reported.FilterLife1 # Nil /\ reported.FilterLife # Nil ->
            IF After(reported.FilterLifeUpdated, reported.FilterLife1Updated)
            THEN reported.FilterLife1
            ELSE reported.FilterLife
      [] reported.FilterLife1 # Nil /\ reported.FilterLife = Nil -> reported.FilterLife1
      [] reported.FilterLife1 = Nil /\ reported.FilterLife # Nil -> reported.FilterLife
      [] OTHER -> Nil

\* The switch choosing between FilterLife1 and FilterLife.
filterLife(reported) ==
    CASE reported.FilterLife1 # Nil /\ reported.FilterLife # Nil ->
            IF After(reported.FilterLife1Updated, reported.FilterLifeUpdated)
            THEN reported.FilterLife1
            ELSE reported.FilterLife
      [] reported.FilterLife1 # Nil /\ reported.FilterLife = Nil -> reported.FilterLife1
      [] reported.FilterLife1 = Nil /\ reported.FilterLife # Nil -> reported.FilterLife
      [] OTHER -> Nil

\* Mutant of co2: the switch copied from filter life still compares the filter-life
\* timestamps.
co2ByFilterLifeTime(reported) ==
    CASE reported.CO2 # Nil /\ reported.ECO2 # Nil ->
            IF After(reported.FilterLife1Updated, reported.FilterLifeUpdated)
            THEN reported.ECO2
            ELSE reported.CO2
      [] reported.ECO2 # Nil /\ reported.CO2 = Nil -> reported.ECO2
      [] reported.ECO2 = Nil /\ reported.CO2 # Nil -> reported.CO2
      [] OTHER -> Nil

\* The switch choosing between ECO2 and CO2.
co2(reported) ==
    CASE reported.CO2 # Nil /\ reported.ECO2 # Nil ->
            IF After(reported.ECO2Updated, reported.CO2Updated)
            THEN reported.ECO2
            ELSE reported.CO2
      [] reported.ECO2 # Nil /\ reported.CO2 = Nil -> reported.ECO2
      [] reported.ECO2 = Nil /\ reported.CO2 # Nil -> reported.CO2
      [] OTHER -> Nil

\* Mutant of Eligible: every appliance with a known device type is collected.
EligibleAnyKnown(info) == info.DeviceType # ""

\* info.DeviceType != "AIR_PURIFIER" skips the appliance.
Eligible(info) == info.DeviceType = AIR_PURIFIER

Labels(appliance, info) ==
    << info.PNC, info.DeviceType, appliance.ApplianceID, appliance.ModelName >>

\* The samples one eligible appliance sends to ch, in the order of the loop body.
ApplianceMetrics(appliance, info) ==
    LET reported == Reported(appliance.Reported)
        labels == Labels(appliance, info)
        fs == fanspeed(appliance.ModelName, reported.Fanspeed)
        temperature == IF reported.Temp # Nil THEN Deref(reported.Temp) ELSE 25
    IN  collectMetric("connected", boolToFloat64(appliance.ConnectionState = "Connected"), labels)
        \o collectMetric("workmode", workmode(reported.Workmode), labels)
        \o maybeCollectBoolMetric("door_open", reported.DoorOpen, labels)
        \o maybeCollectBoolMetric("ui_light", Ptr(reported.UILight), labels)
        \o maybeCollectBoolMetric("safety_lock", Ptr(reported.SafetyLock), labels)
        \o maybeCollectBoolMetric("ionizer", reported.Ionizer, labels)
        \o (IF filterLife(reported) # Nil
            THEN collectMetric("filter_life", Float(Deref(filterLife(reported))) \div 100, labels)
            ELSE <<>>)
        \o maybeCollectIntMetric("filter_type_id", reported.FilterType, labels)
        \o maybeCollectIntMetric("rssi", reported.RSSI, labels)
        \o (IF fs.ok
            THEN collectMetric("fanspeed", round(fs.perc), labels)
                 \o collectMetric("fanspeed_max", fs.max, labels)
            ELSE <<>>)
        \o collectMetric("fanspeed_raw", Float(reported.Fanspeed), labels)
        \o (IF reported.Temp # Nil
            THEN collectMetric("temperature", Float(Deref(reported.Temp)), labels)
            ELSE <<>>)
        \o (IF reported.Humidity # Nil
            THEN collectMetric("humidity", Float(Deref(reported.Humidity)) \div 100, labels)
            ELSE <<>>)
        \o (IF reported.PM1 # Nil
            THEN collectMetric("pm1", Float(Deref(reported.PM1)), labels)
            ELSE <<>>)
        \o (CASE reported.PM25 # Nil -> collectMetric("pm25", Float(Deref(reported.PM25)), labels)
              [] reported.PM25 = Nil /\ reported.PM25Approximate # Nil ->
                    collectMetric("pm25", Float(Deref(reported.PM25Approximate)), labels)
              [] OTHER -> <<>>)
        \o maybeCollectIntMetric("pm10", reported.PM10, labels)
        \o (IF reported.TVOC # Nil
            THEN collectMetric("tvoc_ppb", Float(Deref(reported.TVOC)), labels)
                 \o collectMetric("voc_density",
                        round(tvocPPBToVocDensity(Deref(reported.TVOC), temperature)), labels)
            ELSE <<>>)
        \o maybeCollectIntMetric("co2", co2(reported), labels)

\* The loop over the listed appliances: an appliance whose cached info is not an
\* air purifier's (the zero info when the cache holds none) is skipped.
Lookup(infos, pnc) == IF infos[pnc] = Nil THEN ZeroInfo ELSE Deref(infos[pnc])

RECURSIVE CollectLoop(_, _)
CollectLoop(list, infos) ==
    IF list = <<>>
    THEN <<>>
    ELSE LET appliance == Head(list)
             info == Lookup(infos, PNC(appliance.ApplianceID))
         IN  (IF Eligible(info) THEN ApplianceMetrics(appliance, info) ELSE <<>>)
             \o CollectLoop(Tail(list), infos)

\* ---------------------------------------------------------------- inputs

SeqsUpTo(S, n) == UNION {[1 .. k -> S] : k \in 0 .. n}

\* Reported states the listed appliances of Spec carry: nothing optional reported,
\* and everything reported.
BareReported ==
    [DoorOpen |-> Nil, UILight |-> Nil, SafetyLock |-> Nil, Ionizer |-> Nil,
     FilterLife |-> Nil, FilterLife1 |-> Nil, FilterLifeUpdated |-> 1, FilterLife1Updated |-> 1,
     FilterType |-> Nil, RSSI |-> Nil, Fanspeed |-> 3, Workmode |-> "Auto",
     Temp |-> Nil, Humidity |-> Nil, PM1 |-> Nil, PM25 |-> Nil, PM25Approximate |-> Nil,
     PM10 |-> Nil, TVOC |-> Nil, CO2 |-> Nil, ECO2 |-> Nil, CO2Updated |-> 1, ECO2Updated |-> 1]

FullReported ==
    [DoorOpen |-> Ptr(FALSE), UILight |-> Ptr(TRUE), SafetyLock |-> Ptr(FALSE), Ionizer |-> Ptr(TRUE),
     FilterLife |-> Ptr(80), FilterLife1 |-> Ptr(60), FilterLifeUpdated |-> 1, FilterLife1Updated |-> 2,
     FilterType |-> Ptr(48), RSSI |-> Ptr(-52), Fanspeed |-> 3, Workmode |-> "Auto",
     Temp |-> Ptr(21), Humidity |-> Ptr(40), PM1 |-> Ptr(2), PM25 |-> Ptr(12), PM25Approximate |-> Ptr(15),
     PM10 |-> Ptr(4), TVOC |-> Ptr(10), CO2 |-> Ptr(400), ECO2 |-> Ptr(450), CO2Updated |-> 2, ECO2Updated |-> 1]

ListedAppliances ==
    [ApplianceID : ApplianceIDSet, ConnectionState : {"Connected"}, ModelName : {"PUREA9"},
     Reported : {BareReported, FullReported}]

\* The lists an Appliances response may hold: each appliance of the account once.
ApplianceLists ==
    {list \in SeqsUpTo(ListedAppliances, MaxAppliances) :
        \A i, j \in 1 .. Len(list) : list[i].ApplianceID = list[j].ApplianceID => i = j}

\* The lists an AppliancesInfo response may hold.
InfoLists == SeqsUpTo(InfoSet, MaxInfos)

\* ---------------------------------------------------------------- state

VARIABLES
    pc,              \* pc[c]: where goroutine c is in Collect
    mu,              \* Collector.mu: its holder, or NoOwner
    applianceInfos,  \* Collector.applianceInfos: PNC -> Nil or Ptr(info)
    ctxDone,         \* Collector.ctx is cancelled
    appliances,      \* appliances[c]: the list Appliances returned to c
    applianceIDs,    \* applianceIDs[c]: the ids c asks AppliancesInfo for
    err,             \* err[c]: the call whose error c logged, or "nil"
    ch,              \* ch[c]: the samples c sent in this pass
    calls,           \* calls[c]: the API calls c made in this pass
    startInfos,      \* startInfos[c]: applianceInfos when c took the lock
    fetched,         \* ids some successful AppliancesInfo call asked for
    covered,         \* ids of fetched whose PNC that call's response held
    sigDone,         \* main's signal context is done (SIGINT/SIGTERM)
    serving          \* the HTTP server accepts scrapes

vars == << pc, mu, applianceInfos, ctxDone, appliances, applianceIDs, err, ch, calls,
           startInfos, fetched, covered, sigDone, serving >>

locals == << appliances, applianceIDs, err, ch, calls, startInfos >>
process == << sigDone, serving >>
history == << fetched, covered >>

InBody == {"list", "info", "emit", "ret"}

Init ==
    /\ pc = [c \in Callers |-> "idle"]
    /\ mu = NoOwner
    /\ applianceInfos = [p \in PNCs |-> Nil]
    /\ ctxDone = FALSE
    /\ appliances = [c \in Callers |-> <<>>]
    /\ applianceIDs = [c \in Callers |-> <<>>]
    /\ err = [c \in Callers |-> "nil"]
    /\ ch = [c \in Callers |-> <<>>]
    /\ calls = [c \in Callers |-> <<>>]
    /\ startInfos = [c \in Callers |-> [p \in PNCs |-> Nil]]
    /\ fetched = {}
    /\ covered = {}
    /\ sigDone = FALSE
    /\ serving = TRUE

\* ---------------------------------------------------------------- Collect

\* Mutant of CanLock: Collect without the mutex.
CanLockNoMutex == TRUE

\* c.mu.Lock() returns when no goroutine holds the mutex.
CanLock == mu = NoOwner

\* Mutant of IsCached: the cache is looked up under the whole appliance id, a key
\* it never holds.
IsCachedByApplianceID(infos, id) == FALSE

\* _, ok := c.applianceInfos[appliance.ApplianceID.PNC()]
IsCached(infos, id) == infos[PNC(id)] # Nil

\* The ids appended to applianceIDs: the listed appliances with no cached info.
RECURSIVE Uncached(_, _)
Uncached(list, infos) ==
    IF list = <<>>
    THEN <<>>
    ELSE (IF IsCached(infos, Head(list).ApplianceID) THEN <<>> ELSE << Head(list).ApplianceID >>)
         \o Uncached(Tail(list), infos)

\* for _, info := range applianceInfo { c.applianceInfos[info.PNC] = info }
RECURSIVE StoreInfos(_, _)
StoreInfos(infos, resp) ==
    IF resp = <<>>
    THEN infos
    ELSE StoreInfos([infos EXCEPT ![Head(resp).PNC] = Ptr(Head(resp))], Tail(resp))

Range(q) == {q[i] : i \in 1 .. Len(q)}

\* A scrape reaches Collect and blocks on the mutex.
CallCollect(c) ==
    /\ serving
    /\ pc[c] = "idle"
    /\ pc' = [pc EXCEPT ![c] = "lock"]
    /\ UNCHANGED << mu, applianceInfos, ctxDone, locals, history, process >>

\* The mutex is taken and the Appliances call is sent.
Lock(c) ==
    /\ pc[c] = "lock"
    /\ CanLock
    /\ mu' = c
    /\ pc' = [pc EXCEPT ![c] = "list"]
    /\ calls' = [calls EXCEPT ![c] = << "Appliances" >>]
    /\ startInfos' = [startInfos EXCEPT ![c] = applianceInfos]
    /\ UNCHANGED << applianceInfos, ctxDone, appliances, applianceIDs, err, ch, history, process >>

\* Appliances returns a list: the ids without cached info are gathered and, when
\* there are any, the AppliancesInfo call is sent.
AppliancesOK(c, list) ==
    /\ pc[c] = "list"
    /\ ~ctxDone
    /\ appliances' = [appliances EXCEPT ![c] = list]
    /\ applianceIDs' = [applianceIDs EXCEPT ![c] = Uncached(list, applianceInfos)]
    /\ IF Len(Uncached(list, applianceInfos)) > 0
       THEN /\ pc' = [pc EXCEPT ![c] = "info"]
            /\ calls' = [calls EXCEPT ![c] = Append(@, "AppliancesInfo")]
       ELSE /\ pc' = [pc EXCEPT ![c] = "emit"]
            /\ UNCHANGED calls
    /\ UNCHANGED << mu, applianceInfos, ctxDone, err, ch, startInfos, history, process >>

\* Mutant of AppliancesErr: the error is logged but the return is missing, and the
\* pass goes on with whatever list came back with the error.
AppliancesErrNoReturn(c) ==
    /\ pc[c] = "list"
    /\ err' = [err EXCEPT ![c] = "Appliances"]
    /\ \E list \in ApplianceLists :
          /\ appliances' = [appliances EXCEPT ![c] = list]
          /\ applianceIDs' = [applianceIDs EXCEPT ![c] = Uncached(list, applianceInfos)]
          /\ IF Len(Uncached(list, applianceInfos)) > 0
             THEN /\ pc' = [pc EXCEPT ![c] = "info"]
                  /\ calls' = [calls EXCEPT ![c] = Append(@, "AppliancesInfo")]
             ELSE /\ pc' = [pc EXCEPT ![c] = "emit"]
                  /\ UNCHANGED calls
    /\ UNCHANGED << mu, applianceInfos, ctxDone, ch, startInfos, history, process >>

\* Appliances fails (transport error, deadline, cancelled context): log and return.
AppliancesErr(c) ==
    /\ pc[c] = "list"
    /\ err' = [err EXCEPT ![c] = "Appliances"]
    /\ pc' = [pc EXCEPT ![c] = "ret"]
    /\ UNCHANGED << mu, applianceInfos, ctxDone, appliances, applianceIDs, ch, calls,
                    startInfos, history, process >>

\* AppliancesInfo returns infos: each is stored under its PNC.
AppliancesInfoOK(c, resp) ==
    /\ pc[c] = "info"
    /\ ~ctxDone
    /\ applianceInfos' = StoreInfos(applianceInfos, resp)
    /\ fetched' = fetched \cup Range(applianceIDs[c])
    /\ covered' = covered \cup
            {id \in Range(applianceIDs[c]) : \E i \in 1 .. Len(resp) : resp[i].PNC = PNC(id)}
    /\ pc' = [pc EXCEPT ![c] = "emit"]
    /\ UNCHANGED << mu, ctxDone, locals, process >>

\* Mutant of AppliancesInfoErr: the error is logged but the return is missing, and
\* the loop runs with the infos cached so far.
AppliancesInfoErrNoReturn(c) ==
    /\ pc[c] = "info"
    /\ err' = [err EXCEPT ![c] = "AppliancesInfo"]
    /\ pc' = [pc EXCEPT ![c] = "emit"]
    /\ UNCHANGED << mu, applianceInfos, ctxDone, appliances, applianceIDs, ch, calls,
                    startInfos, history, process >>

\* AppliancesInfo fails: log and return.
AppliancesInfoErr(c) ==
    /\ pc[c] = "info"
    /\ err' = [err EXCEPT ![c] = "AppliancesInfo"]
    /\ pc' = [pc EXCEPT ![c] = "ret"]
    /\ UNCHANGED << mu, applianceInfos, ctxDone, appliances, applianceIDs, ch, calls,
                    startInfos, history, process >>

\* The loop over the listed appliances sends their samples.
Emit(c) ==
    /\ pc[c] = "emit"
    /\ ch' = [ch EXCEPT ![c] = CollectLoop(appliances[c], applianceInfos)]
    /\ pc' = [pc EXCEPT ![c] = "ret"]
    /\ UNCHANGED << mu, applianceInfos, ctxDone, appliances, applianceIDs, err, calls,
                    startInfos, history, process >>

\* Mutant of Return: Unlock is called at the end of the body instead of deferred, so
\* the early returns after an error leave the mutex locked.
ReturnLockedOnError(c) ==
    /\ pc[c] = "ret"
    /\ mu' = IF err[c] = "nil" THEN NoOwner ELSE mu
    /\ pc' = [pc EXCEPT ![c] = "idle"]
    /\ appliances' = [appliances EXCEPT ![c] = <<>>]
    /\ applianceIDs' = [applianceIDs EXCEPT ![c] = <<>>]
    /\ err' = [err EXCEPT ![c] = "nil"]
    /\ ch' = [ch EXCEPT ![c] = <<>>]
    /\ calls' = [calls EXCEPT ![c] = <<>>]
    /\ startInfos' = [startInfos EXCEPT ![c] = [p \in PNCs |-> Nil]]
    /\ UNCHANGED << applianceInfos, ctxDone, history, process >>

\* Collect returns: the deferred cancel and Unlock run, the locals are gone.
Return(c) ==
    /\ pc[c] = "ret"
    /\ mu' = NoOwner
    /\ pc' = [pc EXCEPT ![c] = "idle"]
    /\ appliances' = [appliances EXCEPT ![c] = <<>>]
    /\ applianceIDs' = [applianceIDs EXCEPT ![c] = <<>>]
    /\ err' = [err EXCEPT ![c] = "nil"]
    /\ ch' = [ch EXCEPT ![c] = <<>>]
    /\ calls' = [calls EXCEPT ![c] = <<>>]
    /\ startInfos' = [startInfos EXCEPT ![c] = [p \in PNCs |-> Nil]]
    /\ UNCHANGED << applianceInfos, ctxDone, history, process >>

\* Collector.Close cancels c.ctx.
Close ==
    /\ ~ctxDone
    /\ ctxDone' = TRUE
    /\ UNCHANGED << pc, mu, applianceInfos, locals, history, process >>

\* ---------------------------------------------------------------- main

\* SIGINT or SIGTERM: the context of signal.NotifyContext is done.
Signal ==
    /\ ~sigDone
    /\ sigDone' = TRUE
    /\ UNCHANGED << pc, mu, applianceInfos, ctxDone, locals, history, serving >>

\* main wakes from <-ctx.Done() and calls srv.Shutdown: no new scrape is accepted.
Shutdown ==
    /\ sigDone
    /\ serving
    /\ serving' = FALSE
    /\ UNCHANGED << pc, mu, applianceInfos, ctxDone, locals, history, sigDone >>

\* The collector while the process serves scrapes.
Next ==
    \/ \E c \in Callers : CallCollect(c)
    \/ \E c \in Callers : Lock(c)
    \/ \E c \in Callers : \E list \in ApplianceLists : AppliancesOK(c, list)
    \/ \E c \in Callers : AppliancesErr(c)
    \/ \E c \in Callers : \E resp \in InfoLists : AppliancesInfoOK(c, resp)
    \/ \E c \in Callers : AppliancesInfoErr(c)
    \/ \E c \in Callers : Emit(c)
    \/ \E c \in Callers : Return(c)

Spec == Init /\ [][Next]_vars

\* The collector with the scheduling it runs under. The responses here hold at most
\* one appliance, with the bare reported state, and one info: whether a pass ends
\* does not depend on how much it emits.
ShortLists ==
    {list \in ApplianceLists :
        Len(list) <= 1 /\ \A i \in 1 .. Len(list) : list[i].Reported = BareReported}

ShortInfos == {resp \in InfoLists : Len(resp) <= 1}

\* The Appliances call of goroutine c returns, with a list or with an error.
AppliancesReturns(c) ==
    \/ \E list \in ShortLists : AppliancesOK(c, list)
    \/ AppliancesErr(c)

\* The AppliancesInfo call of goroutine c returns, with infos or with an error.
AppliancesInfoReturns(c) ==
    \/ \E resp \in ShortInfos : AppliancesInfoOK(c, resp)
    \/ AppliancesInfoErr(c)

NextLive ==
    \/ \E c \in Callers : CallCollect(c)
    \/ \E c \in Callers : Lock(c)
    \/ \E c \in Callers : AppliancesReturns(c)
    \/ \E c \in Callers : AppliancesInfoReturns(c)
    \/ \E c \in Callers : Emit(c)
    \/ \E c \in Callers : Return(c)

\* Every API call returns (both run under a 30s deadline), a goroutine that can run
\* does, and a goroutine waiting for the mutex gets it in the end: sync.Mutex hands
\* the lock to a waiter that has starved (its starvation mode).
Fairness ==
    \A c \in Callers :
        /\ SF_vars(Lock(c))
        /\ WF_vars(AppliancesReturns(c))
        /\ WF_vars(AppliancesInfoReturns(c))
        /\ WF_vars(Emit(c))
        /\ WF_vars(Return(c))

SpecLive == Init /\ [][NextLive]_vars /\ Fairness

\* The collector together with main's handling of the shutdown signal, and Close.
NextMain ==
    \/ Next
    \/ Close
    \/ Signal
    \/ Shutdown

SpecMain == Init /\ [][NextMain]_vars

\* ---------------------------------------------------------------- the loop body alone

OptInt(v) == {Nil, Ptr(v)}

\* Every combination of the optional properties that have a metric of their own.
PresenceReported ==
    [DoorOpen : OptBool, UILight : OptBool, SafetyLock : OptBool, Ionizer : OptBool,
     FilterLife : {Ptr(80)}, FilterLife1 : {Nil}, FilterLifeUpdated : {1}, FilterLife1Updated : {1},
     FilterType : OptInt(48), RSSI : OptInt(-52), Fanspeed : {3}, Workmode : {"Auto"},
     Temp : OptInt(21), Humidity : OptInt(40), PM1 : OptInt(2), PM25 : {Nil},
     PM25Approximate : {Ptr(15)}, PM10 : OptInt(4), TVOC : OptInt(10),
     CO2 : {Nil}, ECO2 : {Ptr(450)}, CO2Updated : {1}, ECO2Updated : {1}]

\* Every combination of the properties that are resolved from two readings.
ResolveReported ==
    [DoorOpen : {Nil}, UILight : {Ptr(TRUE)}, SafetyLock : {Ptr(FALSE)}, Ionizer : {Nil},
     FilterLife : OptInt(80), FilterLife1 : OptInt(60), FilterLifeUpdated : Times, FilterLife1Updated : Times,
     FilterType : {Nil}, RSSI : {Nil}, Fanspeed : {3}, Workmode : {"Auto"},
     Temp : OptInt(21), Humidity : {Nil}, PM1 : {Nil}, PM25 : OptInt(12),
     PM25Approximate : OptInt(15), PM10 : {Nil}, TVOC : OptInt(10),
     CO2 : OptInt(400), ECO2 : OptInt(450), CO2Updated : Times, ECO2Updated : Times]

EmitID == [pnc |-> "p1", serial |-> 1]

\* The model names of the fan-speed table, and names it does not hold: the AEG
\* Pure 5000, a name in another case, and no name at all.
ModelNames ==
    {"PUREA9", "AX9", "WELLA5", "AX5", "WELLA7", "AX7", "FLOWA3", "AX3", "Muju", "PURE500",
     "PURE5000", "purea9", ""}

\* Every model name with every raw fan speed.
FanAppliances ==
    [ApplianceID : {EmitID}, ConnectionState : {"Connected"}, ModelName : ModelNames,
     Reported : {[BareReported EXCEPT !.Fanspeed = s] : s \in 0 .. MaxFanspeed}]

EmitAppliances ==
    [ApplianceID : {EmitID}, ConnectionState : {"Connected"}, ModelName : {"PUREA9"},
     Reported : PresenceReported \cup ResolveReported]
    \cup FanAppliances

EmitInfos == [p \in PNCs |-> IF p = "p1" THEN Ptr([PNC |-> "p1", DeviceType |-> AIR_PURIFIER]) ELSE Nil]

\* Goroutine 1 holds the lock, Appliances has returned one appliance whose info is
\* cached as an air purifier's, and the loop is about to run.
InitEmit ==
    /\ pc = [c \in Callers |-> IF c = 1 THEN "emit" ELSE "idle"]
    /\ mu = 1
    /\ applianceInfos = EmitInfos
    /\ ctxDone = FALSE
    /\ \E a \in EmitAppliances : appliances = [c \in Callers |-> IF c = 1 THEN << a >> ELSE <<>>]
    /\ applianceIDs = [c \in Callers |-> <<>>]
    /\ err = [c \in Callers |-> "nil"]
    /\ ch = [c \in Callers |-> <<>>]
    /\ calls = [c \in Callers |-> IF c = 1 THEN << "Appliances" >> ELSE <<>>]
    /\ startInfos = [c \in Callers |-> IF c = 1 THEN EmitInfos ELSE [p \in PNCs |-> Nil]]
    /\ fetched = {EmitID}
    /\ covered = {EmitID}
    /\ sigDone = FALSE
    /\ serving = TRUE

NextEmit ==
    \/ \E c \in Callers : Emit(c)
    \/ \E c \in Callers : Return(c)

SpecEmit == InitEmit /\ [][NextEmit]_vars

\* ---------------------------------------------------------------- properties

\* The device type cached for an appliance id ("" when the cache holds no entry).
CachedType(id) == IF applianceInfos[id.pnc] = Nil THEN "" ELSE applianceInfos[id.pnc][1].DeviceType

\* The samples of metric desc that goroutine c sent for appliance id.
SamplesOf(c, desc, id) == SelectSeq(ch[c], LAMBDA s : s.desc = desc /\ s.labels[3] = id)

\* C1: at most one goroutine is inside the body of Collect at a time, it is the one
\* holding mu, and a goroutine that has not taken the lock has made no API call,
\* read no list and sent no sample.
C1_OnePassAtATime ==
    /\ \A c, d \in Callers : (pc[c] \in InBody /\ pc[d] \in InBody) => c = d
    /\ \A c \in Callers : pc[c] \in InBody => mu = c
    /\ \A c \in Callers :
          pc[c] \notin InBody => (calls[c] = <<>> /\ appliances[c] = <<>> /\ ch[c] = <<>>)

\* A second goroutine is blocked on the lock while the first waits for AppliancesInfo.
C1_Witness ==
    \E c, d \in Callers : c # d /\ pc[c] = "info" /\ pc[d] = "lock" /\ mu = c

\* C2: a pass whose Appliances call failed has sent no sample, has made no
\* AppliancesInfo call and has left the cache as it was when the pass began.
C2_ListFailureEmitsNothing ==
    \A c \in Callers :
        (pc[c] = "ret" /\ err[c] = "Appliances") =>
            /\ ch[c] = <<>>
            /\ calls[c] = << "Appliances" >>
            /\ applianceInfos = startInfos[c]

\* A list fetch has failed while the cache already holds an air purifier.
C2_Witness ==
    \E c \in Callers :
        /\ pc[c] = "ret"
        /\ err[c] = "Appliances"
        /\ \E p \in PNCs : applianceInfos[p] # Nil /\ applianceInfos[p][1].DeviceType = AIR_PURIFIER

\* C3: a pass whose AppliancesInfo call failed has sent no sample, not even for a
\* listed appliance whose info an earlier pass cached, and has left the cache as it
\* was when the pass began.
C3_InfoFailureAbortsPass ==
    \A c \in Callers :
        (pc[c] = "ret" /\ err[c] = "AppliancesInfo") =>
            /\ ch[c] = <<>>
            /\ applianceInfos = startInfos[c]

\* The info fetch has failed in a pass that also lists an appliance already cached
\* as an air purifier.
C3_Witness ==
    \E c \in Callers :
        /\ pc[c] = "ret"
        /\ err[c] = "AppliancesInfo"
        /\ \E i \in 1 .. Len(appliances[c]) : CachedType(appliances[c][i].ApplianceID) = AIR_PURIFIER

\* C4: every sample a pass has sent belongs to a listed appliance whose cached
\* device type is AIR_PURIFIER, and a pass that did not fail has sent samples for
\* every listed appliance of that type, whatever else is listed.
C4_OnlyAirPurifiers ==
    \A c \in Callers :
        pc[c] = "ret" =>
            /\ \A k \in 1 .. Len(ch[c]) :
                  /\ CachedType(ch[c][k].labels[3]) = AIR_PURIFIER
                  /\ \E i \in 1 .. Len(appliances[c]) : appliances[c][i].ApplianceID = ch[c][k].labels[3]
            /\ err[c] = "nil" =>
                  \A i \in 1 .. Len(appliances[c]) :
                      CachedType(appliances[c][i].ApplianceID) = AIR_PURIFIER =>
                          SamplesOf(c, "connected", appliances[c][i].ApplianceID) # <<>>

\* A pass lists an appliance that reports every sensor but has no cached info after
\* the fill, and then an air purifier: only the air purifier has samples.
C4_Witness ==
    \E c \in Callers :
        /\ pc[c] = "ret"
        /\ err[c] = "nil"
        /\ Len(appliances[c]) = 2
        /\ appliances[c][1].Reported = FullReported
        /\ CachedType(appliances[c][1].ApplianceID) = ""
        /\ CachedType(appliances[c][2].ApplianceID) = AIR_PURIFIER
        /\ ch[c] # <<>>
        /\ \A k \in 1 .. Len(ch[c]) : ch[c][k].labels[3] = appliances[c][2].ApplianceID

\* The ids of the appliances goroutine c has listed whose PNC had no cached info
\* when the pass began, in list order.
NeedsInfo(c) ==
    SelectSeq([i \in 1 .. Len(appliances[c]) |-> appliances[c][i].ApplianceID],
              LAMBDA id : startInfos[c][id.pnc] = Nil)

\* C5 as stated: an appliance id that a successful AppliancesInfo call has asked
\* for is never asked for again.
C5_FetchedOncePerIdentifier ==
    \A c \in Callers : pc[c] = "info" => Range(applianceIDs[c]) \cap fetched = {}

\* C5, amended: an AppliancesInfo call asks for exactly the listed appliances whose
\* PNC has no cached info, and is made only when there is one; an id whose PNC a
\* successful response held is never asked for again.
C5_FillOnlyUncached ==
    \A c \in Callers :
        /\ pc[c] = "info" =>
              /\ applianceIDs[c] # <<>>
              /\ applianceIDs[c] = NeedsInfo(c)
              /\ Range(applianceIDs[c]) \cap covered = {}
        /\ pc[c] \in {"info", "emit", "ret"} =>
              calls[c] = IF NeedsInfo(c) = <<>>
                         THEN << "Appliances" >>
                         ELSE << "Appliances", "AppliancesInfo" >>

\* A later pass lists two appliances whose infos earlier responses held, and ends
\* without an AppliancesInfo call.
C5_Witness ==
    \E c \in Callers :
        /\ pc[c] = "ret"
        /\ err[c] = "nil"
        /\ Len(appliances[c]) = 2
        /\ appliances[c][1].ApplianceID # appliances[c][2].ApplianceID
        /\ \A i \in 1 .. 2 : appliances[c][i].ApplianceID \in covered
        /\ calls[c] = << "Appliances" >>

\* C6: a cached info is never removed and never replaced by another value.
C6_EntriesImmutable ==
    [][\A p \in PNCs : applianceInfos[p] # Nil => applianceInfos'[p] = applianceInfos[p]]_vars

\* C7: once the process's signal context is done, the context of every Collect
\* call still waiting for the API is cancelled.
C7_ShutdownCancelsCollect ==
    \A c \in Callers : (sigDone /\ pc[c] \in {"list", "info"}) => ctxDone

\* A pass of goroutine c that has ended without error and listed one appliance, an
\* air purifier.
OneEligible(c) ==
    /\ pc[c] = "ret"
    /\ err[c] = "nil"
    /\ Len(appliances[c]) = 1
    /\ CachedType(appliances[c][1].ApplianceID) = AIR_PURIFIER

\* The values of the samples of metric desc of that pass.
Values(c, desc) ==
    LET q == SamplesOf(c, desc, appliances[c][1].ApplianceID)
    IN  [k \in 1 .. Len(q) |-> q[k].v]

\* C8: with both filter-life readings present and different timestamps the later
\* one is chosen, with one present that one, with none no sample; the one sample
\* sent is the chosen reading divided by 100 (a sample value v is held as 100 * v).
C8_FilterLifeResolution ==
    \A c \in Callers :
        OneEligible(c) =>
            LET r == appliances[c][1].Reported
                got == Values(c, "filter_life")
            IN  /\ (r.FilterLife # Nil /\ r.FilterLife1 # Nil /\ r.FilterLife1Updated > r.FilterLifeUpdated)
                        => got = << r.FilterLife1[1] >>
                /\ (r.FilterLife # Nil /\ r.FilterLife1 # Nil /\ r.FilterLife1Updated < r.FilterLifeUpdated)
                        => got = << r.FilterLife[1] >>
                /\ (r.FilterLife # Nil /\ r.FilterLife1 = Nil) => got = << r.FilterLife[1] >>
                /\ (r.FilterLife = Nil /\ r.FilterLife1 # Nil) => got = << r.FilterLife1[1] >>
                /\ (r.FilterLife = Nil /\ r.FilterLife1 = Nil) => got = <<>>

\* FilterLife 80 was updated before FilterLife1 60, and the sample is 0.60.
C8_Witness ==
    \E c \in Callers :
        /\ OneEligible(c)
        /\ appliances[c][1].Reported.FilterLife = Ptr(80)
        /\ appliances[c][1].Reported.FilterLife1 = Ptr(60)
        /\ appliances[c][1].Reported.FilterLife1Updated > appliances[c][1].Reported.FilterLifeUpdated
        /\ Values(c, "filter_life") = << 60 >>

\* C9: with both CO2 and ECO2 present and different timestamps the later one is
\* sent, with one present that one, with none no sample, whatever the filter-life
\* readings and timestamps are.
C9_CO2Resolution ==
    \A c \in Callers :
        OneEligible(c) =>
            LET r == appliances[c][1].Reported
                got == Values(c, "co2")
            IN  /\ (r.CO2 # Nil /\ r.ECO2 # Nil /\ r.ECO2Updated > r.CO2Updated)
                        => got = << 100 * r.ECO2[1] >>
                /\ (r.CO2 # Nil /\ r.ECO2 # Nil /\ r.ECO2Updated < r.CO2Updated)
                        => got = << 100 * r.CO2[1] >>
                /\ (r.CO2 # Nil /\ r.ECO2 = Nil) => got = << 100 * r.CO2[1] >>
                /\ (r.CO2 = Nil /\ r.ECO2 # Nil) => got = << 100 * r.ECO2[1] >>
                /\ (r.CO2 = Nil /\ r.ECO2 = Nil) => got = <<>>

\* ECO2 450 is the later CO2 reading and is sent, while of the filter-life readings
\* the later one is FilterLife, not FilterLife1.
C9_Witness ==
    \E c \in Callers :
        /\ OneEligible(c)
        /\ appliances[c][1].Reported.CO2 = Ptr(400)
        /\ appliances[c][1].Reported.ECO2 = Ptr(450)
        /\ appliances[c][1].Reported.ECO2Updated > appliances[c][1].Reported.CO2Updated
        /\ appliances[c][1].Reported.FilterLife # Nil
        /\ appliances[c][1].Reported.FilterLife1 # Nil
        /\ appliances[c][1].Reported.FilterLife1Updated < appliances[c][1].Reported.FilterLifeUpdated
        /\ Values(c, "co2") = << 45000 >>
        /\ Values(c, "filter_life") = << 80 >>

\* The number of samples of metric desc sent for an appliance that reports (1) or
\* does not report (0) the property.
IffPresent(c, desc, field) == Len(Values(c, desc)) = IF field # Nil THEN 1 ELSE 0

\* The optional properties held by pointer in the decoded state.
PointerBacked(c) ==
    LET r == appliances[c][1].Reported
    IN  /\ IffPresent(c, "door_open", r.DoorOpen)
        /\ IffPresent(c, "ionizer", r.Ionizer)
        /\ IffPresent(c, "filter_type_id", r.FilterType)
        /\ IffPresent(c, "rssi", r.RSSI)
        /\ IffPresent(c, "temperature", r.Temp)
        /\ IffPresent(c, "humidity", r.Humidity)
        /\ IffPresent(c, "pm1", r.PM1)
        /\ IffPresent(c, "pm10", r.PM10)
        /\ IffPresent(c, "tvoc_ppb", r.TVOC)
        /\ IffPresent(c, "voc_density", r.TVOC)

TableMax(model) ==
    CASE model = "PUREA9" \/ model = "AX9" -> 9
      [] model = "WELLA5" \/ model = "AX5" \/ model = "WELLA7" \/ model = "AX7" -> 5
      [] model = "FLOWA3" \/ model = "AX3" -> 3
      [] model = "Muju" \/ model = "PURE500" -> 3
      [] OTHER -> 0

\* C11: for a model name of the table and raw speed s, one fanspeed sample is sent,
\* the multiple of 0.01 nearest to s/max, and one fanspeed_max sample equal to max;
\* for any other model name neither is sent (a sample value v is held as 100 * v).
C11_FanspeedNormalization ==
    \A c \in Callers :
        OneEligible(c) =>
            LET max == TableMax(appliances[c][1].ModelName)
                s == appliances[c][1].Reported.Fanspeed
                got == Values(c, "fanspeed")
            IN  IF max = 0
                THEN got = <<>> /\ Values(c, "fanspeed_max") = <<>>
                ELSE /\ Len(got) = 1
                     /\ 2 * (got[1] * max - 100 * s) <= max
                     /\ 2 * (100 * s - got[1] * max) <= max
                     /\ Values(c, "fanspeed_max") = << 100 * max >>

\* A PUREA9 at raw speed 3 has the samples 0.33 and 9, next to the raw speed 3.
C11_Witness ==
    \E c \in Callers :
        /\ OneEligible(c)
        /\ appliances[c][1].ModelName = "PUREA9"
        /\ appliances[c][1].Reported.Fanspeed = 3
        /\ Values(c, "fanspeed") = << 33 >>
        /\ Values(c, "fanspeed_max") = << 900 >>
        /\ Values(c, "fanspeed_raw") = << 300 >>

\* C12: a Collect call that returns releases the mutex, and after a failed pass the
\* collector's state is what it was when the pass began; every call, waiting for the
\* mutex or inside the body, returns in the end with the mutex released (a waiting
\* call returns only by taking the mutex and running its pass).
C12_FailedPassLeavesNoTrace ==
    /\ [][\A c \in Callers :
            (pc[c] = "ret" /\ pc'[c] = "idle") =>
                /\ mu' = NoOwner
                /\ err[c] # "nil" =>
                      /\ applianceInfos' = startInfos[c]
                      /\ ctxDone' = ctxDone
                      /\ ch[c] = <<>>
                      /\ appliances'[c] = <<>> /\ applianceIDs'[c] = <<>> /\ err'[c] = "nil"]_vars
    /\ \A c \in Callers : (pc[c] # "idle") ~> (pc[c] = "idle" /\ mu # c)

\* A pass has failed at AppliancesInfo with an air purifier already cached, and
\* another call waits for the mutex behind it.
C12_Witness ==
    \E c, d \in Callers :
        /\ c # d
        /\ pc[c] = "ret"
        /\ err[c] = "AppliancesInfo"
        /\ pc[d] = "lock"
        /\ \E p \in PNCs : applianceInfos[p] # Nil

====
